---- MODULE Spec2Model ----
(***************************************************************************)
(* urgent-jobs-backend: the application endpoints (apply, view, status      *)
(* update, admin status update), the job endpoints (update, delete, admin  *)
(* status update, admin delete), the notification endpoints (mark as read, *)
(* mark all as read, delete), registration and review creation, over the   *)
(* job_applications, jobs, notifications and reviews tables.               *)
(* A request is a sequence of steps, one per awaited query; the code       *)
(* between two awaits runs with the step that precedes it.                 *)
(***************************************************************************)
EXTENDS Integers, Sequences, FiniteSets, TLC

\* ------------------------------------------------------------------ bounds
\* rows the job_applications table may hold
MaxApps == 2
\* rows the notifications table may hold
MaxNotifs == 3
\* rows the reviews table may hold
MaxReviews == 2

\* ------------------------------------------------------- users and profiles
\* rows of users, by role (setup.sql: role IN job_seeker, employer, admin)
Seekers == {"s1", "s2"}
Employers == {"e1", "e2"}
Admins == {"ad"}
Users == Seekers \cup Employers \cup Admins

Role(u) ==
  IF u \in Seekers THEN "job_seeker"
  ELSE IF u \in Employers THEN "employer" ELSE "admin"

\* rows of job_seeker_profiles and employer_profiles (id, user_id): register
\* inserts the profile with its user, and no endpoint deletes either
job_seeker_profiles ==
  { [id |-> "p1", user_id |-> "s1"], [id |-> "p2", user_id |-> "s2"] }
employer_profiles ==
  { [id |-> "c1", user_id |-> "e1"], [id |-> "c2", user_id |-> "e2"] }

\* ------------------------------------------------------------ request inputs
validStatusValues == {"pending", "accepted", "rejected", "withdrawn"}
\* what a client may send as status: the four values and one outside them
StatusInputs == validStatusValues \cup {"bogus"}
\* job ids a client may send: 1 and 2 exist, 3 never does
JobIdInputs == {1, 2, 3}
\* application ids a client may send: an id above the row count is a missing row
AppIdInputs == 1 .. MaxApps
\* the statuses of a job (updateJobValidation, admin updateJobStatus)
validStatuses == {"active", "filled", "expired", "draft"}
\* what a client may send as a job's status: the four values and one outside them
JobStatusInputs == validStatuses \cup {"bogus"}
\* notification ids a client may send
NotifIdInputs == 1 .. MaxNotifs
\* the server handles up to two requests at once
Slots == {1, 2}

VARIABLES
  jobs,      \* jobs table: id -> [employer_id, status]
  apps,      \* job_applications table: sequence of rows, id = position;
             \* a deleted row leaves NoApplication at its id (SERIAL ids are not reused)
  notifs,    \* notifications table: sequence of rows, id = position;
             \* a deleted row leaves NoNotification at its id
  reviews,   \* reviews table: sequence of rows [reviewer_id, reviewee_id, job_id]
  req,       \* per slot: the request being handled, its locals and response
  pre        \* the tables as the latest request found them (no request: as they are)

vars == <<jobs, apps, notifs, reviews, req, pre>>

db == [jobs |-> jobs, apps |-> apps, notifs |-> notifs, reviews |-> reviews]

\* what is left at the id of a deleted row
NoApplication == [job_id |-> 0, job_seeker_id |-> "-", status |-> "deleted"]
NoNotification == [user_id |-> "-", type |-> "deleted", related_id |-> 0, is_read |-> FALSE]

\* the ids of the rows the tables hold
AppIds == { i \in DOMAIN apps : apps[i] # NoApplication }
NotifIds == { i \in DOMAIN notifs : notifs[i] # NoNotification }

\* failed: the step whose query threw; data: the application in the response body;
\* updatedIds: the ids in the response body of markAllAsRead
NoRequest ==
  [op |-> "none", actor |-> "-", job |-> 0, app |-> 0, notif |-> 0, status |-> "-",
   pc |-> "idle", code |-> 0, seeker |-> "-", target |-> "-", failed |-> "-",
   data |-> NoApplication, updatedIds |-> {}, email |-> "-", role |-> "-",
   revieweeId |-> "-"]

\* two jobs posted with POST /api/jobs: job 1 by e1 with the default status,
\* job 2 by e2 with status draft
Init ==
  /\ jobs = (1 :> [employer_id |-> "c1", status |-> "active"]
             @@ 2 :> [employer_id |-> "c2", status |-> "draft"])
  /\ apps = << >>
  /\ notifs = << >>
  /\ reviews = << >>
  /\ req = [r \in Slots |-> NoRequest]
  /\ pre = [jobs |-> jobs, apps |-> apps, notifs |-> notifs, reviews |-> reviews]

\* users.email of the seeded rows (email VARCHAR(255) UNIQUE NOT NULL)
EmailOf(u) ==
  CASE u = "s1" -> "s1@" [] u = "s2" -> "s2@" [] u = "e1" -> "e1@"
    [] u = "e2" -> "e2@" [] OTHER -> "ad@"

\* the e-mails a register request names: two taken ones and a free one
EmailInputs == {"s1@", "ad@", "new@"}

\* the roles a register request names
RoleInputs == {"job_seeker", "employer", "admin"}

\* ------------------------------------------------------------------ queries
\* SELECT id FROM job_seeker_profiles WHERE user_id = $1
SeekerProfileRows(u) == { p \in job_seeker_profiles : p.user_id = u }

\* the job query without its status filter
ActiveJobRows_AnyStatus(j) == { x \in DOMAIN jobs : x = j }

\* SELECT * FROM jobs WHERE id = $1 AND status = 'active'
ActiveJobRows(j) == { x \in DOMAIN jobs : x = j /\ jobs[x].status = "active" }

\* the existence check counting pending rows only
hasApplied_PendingOnly(jobSeekerId, jobId) ==
  { i \in AppIds : /\ apps[i].job_seeker_id = jobSeekerId /\ apps[i].job_id = jobId
                        /\ apps[i].status = "pending" } # {}

\* SELECT * FROM job_applications WHERE job_seeker_id = $1 AND job_id = $2
hasApplied(jobSeekerId, jobId) ==
  { i \in AppIds : apps[i].job_seeker_id = jobSeekerId /\ apps[i].job_id = jobId } # {}

\* SELECT u.id FROM jobs j JOIN employer_profiles ep JOIN users u WHERE j.id = $1
EmployerUserRows(j) ==
  { ep.user_id : ep \in { e \in employer_profiles :
                            j \in DOMAIN jobs /\ jobs[j].employer_id = e.id } }

\* the ownership query without its ep.user_id filter
PostedJobRows_NoUserFilter(u, j) == { x \in DOMAIN jobs : x = j }

\* the ownership query without its j.id filter: any job of the employer
PostedJobRows_AnyJobOfUser(u, j) ==
  { x \in DOMAIN jobs : \E ep \in employer_profiles :
                          ep.user_id = u /\ ep.id = jobs[x].employer_id }

\* SELECT j.id FROM jobs j JOIN employer_profiles ep
\*   WHERE ep.user_id = $1 AND j.id = $2
PostedJobRows(u, j) ==
  { x \in DOMAIN jobs : x = j /\ \E ep \in employer_profiles :
                          ep.user_id = u /\ ep.id = jobs[x].employer_id }

\* the applicant query without its jsp.id filter
ApplicantRows_NoIdFilter(u, jobSeekerId) ==
  { p \in job_seeker_profiles : p.user_id = u }

\* SELECT jsp.id FROM job_seeker_profiles jsp WHERE jsp.user_id = $1 AND jsp.id = $2
ApplicantRows(u, jobSeekerId) ==
  { p \in job_seeker_profiles : p.user_id = u /\ p.id = jobSeekerId }

\* the employer branch without its check of the requested status
EmployerMayRequest_Any(status) == TRUE

\* the employer branch of updateApplicationStatus: accepted or rejected only
EmployerMayRequest(status) == status \in {"accepted", "rejected"}

\* the job seeker branch of updateApplicationStatus: withdrawn only
SeekerMayRequest(status) == status = "withdrawn"

\* INSERT INTO job_applications (...) VALUES ($1, $2, $3, 'pending')
create(jobSeekerId, jobId) ==
  Append(apps, [job_id |-> jobId, job_seeker_id |-> jobSeekerId, status |-> "pending"])

\* the update re-checking that the application is still pending
updateStatus_PendingOnly(id, status) ==
  [i \in DOMAIN apps |->
     IF i = id /\ i \in AppIds /\ apps[i].status = "pending"
     THEN [apps[i] EXCEPT !.status = status] ELSE apps[i]]

\* UPDATE job_applications SET status = $1 WHERE id = $2
updateStatus(id, status) ==
  [i \in DOMAIN apps |->
     IF i = id /\ i \in AppIds THEN [apps[i] EXCEPT !.status = status] ELSE apps[i]]

\* the bulk update without its status filter
RejectOtherPending_AnyStatus(jobId, id) ==
  [i \in DOMAIN apps |->
     IF apps[i].job_id = jobId /\ i # id
     THEN [apps[i] EXCEPT !.status = "rejected"] ELSE apps[i]]

\* the bulk update matching no row
RejectOtherPending_NoRow(jobId, id) == apps

\* UPDATE job_applications SET status = 'rejected'
\*   WHERE job_id = $1 AND id != $2 AND status = 'pending'
RejectOtherPending(jobId, id) ==
  [i \in DOMAIN apps |->
     IF apps[i].job_id = jobId /\ i # id /\ apps[i].status = "pending"
     THEN [apps[i] EXCEPT !.status = "rejected"] ELSE apps[i]]

\* the update of the job without its id filter
FillJob_EveryJob(jobId) == [x \in DOMAIN jobs |-> [jobs[x] EXCEPT !.status = "filled"]]

\* UPDATE jobs SET status = 'filled' WHERE id = $2
FillJob(jobId) ==
  [x \in DOMAIN jobs |-> IF x = jobId THEN [jobs[x] EXCEPT !.status = "filled"] ELSE jobs[x]]

\* the update of the job without its id filter
Job_update_EveryJob(jobId, status) ==
  [x \in DOMAIN jobs |-> [jobs[x] EXCEPT !.status = status]]

\* Job.update with a status, and the admin's UPDATE jobs SET status = $1 WHERE id = $2
Job_update(jobId, status) ==
  [x \in DOMAIN jobs |-> IF x = jobId THEN [jobs[x] EXCEPT !.status = status] ELSE jobs[x]]

\* the bulk update without its status filter
RejectPending_AnyStatus(jobId) ==
  [i \in DOMAIN apps |->
     IF apps[i].job_id = jobId THEN [apps[i] EXCEPT !.status = "rejected"] ELSE apps[i]]

\* UPDATE job_applications SET status = 'rejected'
\*   WHERE job_id = $1 AND status = 'pending'
RejectPending(jobId) ==
  [i \in DOMAIN apps |->
     IF apps[i].job_id = jobId /\ apps[i].status = "pending"
     THEN [apps[i] EXCEPT !.status = "rejected"] ELSE apps[i]]

\* DELETE FROM jobs WHERE id = $1: the jobs table after it
Job_delete(jobId) == [x \in DOMAIN jobs \ {jobId} |-> jobs[x]]

\* the cascade taking every application with the job
DeletedWithJob_Every(jobId) == [i \in DOMAIN apps |-> NoApplication]

\* job_applications.job_id REFERENCES jobs(id) ON DELETE CASCADE: the
\* job_applications table after the job's row is deleted
DeletedWithJob(jobId) ==
  [i \in DOMAIN apps |-> IF apps[i].job_id = jobId THEN NoApplication ELSE apps[i]]

\* JobApplication.findById(id, true): the application joined with its job,
\* the employer and the job seeker
findById(id) ==
  { apps[i] : i \in { k \in AppIds :
      /\ k = id
      /\ apps[k].job_id \in DOMAIN jobs
      /\ \E ep \in employer_profiles : ep.id = jobs[apps[k].job_id].employer_id
      /\ \E jsp \in job_seeker_profiles : jsp.id = apps[k].job_seeker_id } }

\* the ownership test letting every caller through
belongsTo_Anyone(id, userId) == TRUE

\* notification.user_id !== userId, negated
belongsTo(id, userId) == notifs[id].user_id = userId

\* UPDATE notifications SET is_read = true WHERE id = $1
markAsRead(id) ==
  [i \in DOMAIN notifs |->
     IF i = id /\ i \in NotifIds THEN [notifs[i] EXCEPT !.is_read = TRUE] ELSE notifs[i]]

\* the update without its user_id filter
markAllAsRead_EveryUser(userId) ==
  [i \in DOMAIN notifs |->
     IF i \in NotifIds THEN [notifs[i] EXCEPT !.is_read = TRUE] ELSE notifs[i]]

\* UPDATE notifications SET is_read = true WHERE user_id = $1 AND is_read = false
markAllAsRead(userId) ==
  [i \in DOMAIN notifs |->
     IF i \in NotifIds /\ notifs[i].user_id = userId /\ ~notifs[i].is_read
     THEN [notifs[i] EXCEPT !.is_read = TRUE] ELSE notifs[i]]

\* ... RETURNING id; result.rows.map(row => row.id)
updatedRows(userId) ==
  { i \in NotifIds : notifs[i].user_id = userId /\ ~notifs[i].is_read }

\* SELECT COUNT(*) FROM notifications WHERE user_id = $1 AND is_read = false
getUnreadCount(userId) ==
  Cardinality({ i \in NotifIds : notifs[i].user_id = userId /\ ~notifs[i].is_read })

\* DELETE FROM notifications WHERE id = $1
Notification_delete(id) ==
  [i \in DOMAIN notifs |-> IF i = id THEN NoNotification ELSE notifs[i]]

\* The join of the notification details query: the applicant's and the
\* employer's user ids of application id
DetailRows(id) ==
  { [job_seeker_user_id |-> jsp.user_id, employer_user_id |-> ep.user_id] :
      jsp \in { p \in job_seeker_profiles :
                  id \in AppIds /\ p.id = apps[id].job_seeker_id },
      ep \in { e \in employer_profiles :
                  id \in AppIds /\ apps[id].job_id \in DOMAIN jobs
                  /\ e.id = jobs[apps[id].job_id].employer_id } }

\* INSERT INTO notifications (user_id, type, related_id); is_read defaults to FALSE
createNotification(userId, type, relatedId) ==
  Append(notifs, [user_id |-> userId, type |-> type, related_id |-> relatedId,
                  is_read |-> FALSE])

\* ------------------------------------------------------------ request steps
Free(r) == req[r].pc = "idle"

\* the response is sent: successResponse(res, code, ...) or next(ApiError(code))
Respond(r, code) == [req[r] EXCEPT !.pc = "done", !.code = code]

NewRequest(op, u, j, a, s) ==
  [NoRequest EXCEPT !.op = op, !.actor = u, !.job = j, !.app = a, !.status = s]

Unchanged_db == UNCHANGED <<jobs, apps, notifs, reviews>>

\* ---- POST /api/applications: authorize('job_seeker'), applyForJob
\* the request arrives; authorize runs, then the profile query
StartApply(r, u, j) ==
  /\ Free(r)
  /\ pre' = db
  /\ LET q == NewRequest("apply", u, j, 0, "-")
         rows == SeekerProfileRows(u) IN
       req' = [req EXCEPT ![r] =
                 IF Role(u) # "job_seeker" THEN [q EXCEPT !.pc = "done", !.code = 403]
                 ELSE IF rows = {} THEN [q EXCEPT !.pc = "done", !.code = 404]
                 ELSE [q EXCEPT !.pc = "a_job",
                                !.seeker = (CHOOSE p \in rows : TRUE).id]]
  /\ Unchanged_db

\* the job query: 404 unless the job exists and is active
ApplyJob(r) ==
  /\ req[r].pc = "a_job"
  /\ req' = [req EXCEPT ![r] =
               IF ActiveJobRows(req[r].job) = {} THEN Respond(r, 404)
               ELSE [req[r] EXCEPT !.pc = "a_has"]]
  /\ UNCHANGED <<jobs, apps, notifs, reviews, pre>>

\* JobApplication.hasApplied: 400 when a row of the pair exists
ApplyHasApplied(r) ==
  /\ req[r].pc = "a_has"
  /\ req' = [req EXCEPT ![r] =
               IF hasApplied(req[r].seeker, req[r].job) THEN Respond(r, 400)
               ELSE [req[r] EXCEPT !.pc = "a_create"]]
  /\ UNCHANGED <<jobs, apps, notifs, reviews, pre>>

\* JobApplication.create: the row is inserted with status pending
ApplyCreate(r) ==
  /\ req[r].pc = "a_create"
  /\ Len(apps) < MaxApps
  /\ apps' = create(req[r].seeker, req[r].job)
  /\ req' = [req EXCEPT ![r] = [req[r] EXCEPT !.pc = "a_employer", !.app = Len(apps')]]
  /\ UNCHANGED <<jobs, notifs, reviews, pre>>

\* the employer query and the job seeker info query: the notification is
\* created when the employer's user row is found
ApplyEmployer(r) ==
  /\ req[r].pc = "a_employer"
  /\ LET rows == EmployerUserRows(req[r].job) IN
       req' = [req EXCEPT ![r] =
                 IF rows = {} THEN Respond(r, 201)
                 ELSE [req[r] EXCEPT !.pc = "a_notify",
                                     !.target = CHOOSE x \in rows : TRUE]]
  /\ UNCHANGED <<jobs, apps, notifs, reviews, pre>>

\* Notification.createNewApplicationNotification, then the 201 response
ApplyNotify(r) ==
  /\ req[r].pc = "a_notify"
  /\ Len(notifs) < MaxNotifs
  /\ notifs' = createNotification(req[r].target, "new_application", req[r].app)
  /\ req' = [req EXCEPT ![r] = Respond(r, 201)]
  /\ UNCHANGED <<jobs, apps, reviews, pre>>

\* ---- PATCH /api/applications/:id/status: updateStatusValidation,
\* ---- updateApplicationStatus
\* the request arrives; the validation of status runs
StartUpdate(r, u, a, s) ==
  /\ Free(r)
  /\ pre' = db
  /\ LET q == NewRequest("update", u, 0, a, s) IN
       req' = [req EXCEPT ![r] =
                 IF s \notin validStatusValues THEN [q EXCEPT !.pc = "done", !.code = 400]
                 ELSE [q EXCEPT !.pc = "u_find"]]
  /\ Unchanged_db

\* JobApplication.findById, then the role branch up to its ownership query
UpdateFind(r) ==
  /\ req[r].pc = "u_find"
  /\ LET a == req[r].app
         role == Role(req[r].actor) IN
       req' = [req EXCEPT ![r] =
         IF a \notin AppIds THEN Respond(r, 404)
         ELSE LET found == [req[r] EXCEPT !.job = apps[a].job_id,
                                          !.seeker = apps[a].job_seeker_id] IN
           IF role = "employer" /\ ~EmployerMayRequest(req[r].status)
             THEN [found EXCEPT !.pc = "done", !.code = 400]
           ELSE IF role = "job_seeker" /\ ~SeekerMayRequest(req[r].status)
             THEN [found EXCEPT !.pc = "done", !.code = 400]
           ELSE IF role \in {"employer", "job_seeker"}
             THEN [found EXCEPT !.pc = "u_own"]
           ELSE [found EXCEPT !.pc = "u_update"]]
  /\ UNCHANGED <<jobs, apps, notifs, reviews, pre>>

\* the ownership query finding a row for every caller
authorized_Anyone(u, jobId, jobSeekerId) == TRUE

\* the ownership query of the role branch: 403 unless it finds a row
authorized(u, jobId, jobSeekerId) ==
  IF Role(u) = "employer" THEN PostedJobRows(u, jobId) # {}
  ELSE ApplicantRows(u, jobSeekerId) # {}

UpdateOwn(r) ==
  /\ req[r].pc = "u_own"
  /\ req' = [req EXCEPT ![r] =
               IF authorized(req[r].actor, req[r].job, req[r].seeker)
               THEN [req[r] EXCEPT !.pc = "u_update"]
               ELSE Respond(r, 403)]
  /\ UNCHANGED <<jobs, apps, notifs, reviews, pre>>

\* JobApplication.updateStatus: the row alone is updated
UpdateStatus(r) ==
  /\ req[r].pc = "u_update"
  /\ apps' = updateStatus(req[r].app, req[r].status)
  /\ req' = [req EXCEPT ![r] = [req[r] EXCEPT !.pc = "u_details"]]
  /\ UNCHANGED <<jobs, notifs, reviews, pre>>

\* the choice of the user to notify with the two parties swapped
targetUserId_OwnSide(u, status, row) ==
  IF Role(u) = "employer" /\ status \in {"accepted", "rejected"}
    THEN row.employer_user_id
  ELSE IF Role(u) = "job_seeker" /\ status = "withdrawn"
    THEN row.job_seeker_user_id
  ELSE "-"

\* whom the status notification goes to: the applicant when an employer
\* accepted or rejected, the employer when a job seeker withdrew, else nobody
targetUserId(u, status, row) ==
  IF Role(u) = "employer" /\ status \in {"accepted", "rejected"}
    THEN row.job_seeker_user_id
  ELSE IF Role(u) = "job_seeker" /\ status = "withdrawn"
    THEN row.employer_user_id
  ELSE "-"

\* the notification details query and the choice of the user to notify
UpdateDetails(r) ==
  /\ req[r].pc = "u_details"
  /\ LET rows == DetailRows(req[r].app)
         t == IF rows = {} THEN "-"
              ELSE targetUserId(req[r].actor, req[r].status, CHOOSE x \in rows : TRUE) IN
       req' = [req EXCEPT ![r] =
                 IF t = "-" THEN Respond(r, 200)
                 ELSE [req[r] EXCEPT !.pc = "u_notify", !.target = t]]
  /\ UNCHANGED <<jobs, apps, notifs, reviews, pre>>

\* Notification.createApplicationStatusNotification, then the 200 response
UpdateNotify(r) ==
  /\ req[r].pc = "u_notify"
  /\ Len(notifs) < MaxNotifs
  /\ notifs' = createNotification(req[r].target, "application_status", req[r].app)
  /\ req' = [req EXCEPT ![r] = Respond(r, 200)]
  /\ UNCHANGED <<jobs, apps, reviews, pre>>

\* ---- /api/admin: router.use(protect), router.use(ensureAdmin)
\* the gate letting every authenticated user through
ensureAdmin_Anyone(u) == TRUE

\* req.user && req.user.role === 'admin'; otherwise 403
ensureAdmin(u) == Role(u) = "admin"

\* ---- PATCH /api/admin/applications/:id/status: ensureAdmin,
\* ---- admin updateApplicationStatus
\* the request arrives; ensureAdmin runs, then the check of status
StartAdminUpdate(r, u, a, s) ==
  /\ Free(r)
  /\ pre' = db
  /\ LET q == NewRequest("admin_update", u, 0, a, s) IN
       req' = [req EXCEPT ![r] =
                 IF ~ensureAdmin(u) THEN [q EXCEPT !.pc = "done", !.code = 403]
                 ELSE IF s \notin validStatusValues
                   THEN [q EXCEPT !.pc = "done", !.code = 400]
                 ELSE [q EXCEPT !.pc = "m_check"]]
  /\ Unchanged_db

\* SELECT id, job_id FROM job_applications WHERE id = $1
AdminCheck(r) ==
  /\ req[r].pc = "m_check"
  /\ req' = [req EXCEPT ![r] =
               IF req[r].app \notin AppIds THEN Respond(r, 404)
               ELSE [req[r] EXCEPT !.pc = "m_update", !.job = apps[req[r].app].job_id]]
  /\ UNCHANGED <<jobs, apps, notifs, reviews, pre>>

\* the UPDATE of the application's status
AdminUpdate(r) ==
  /\ req[r].pc = "m_update"
  /\ apps' = updateStatus(req[r].app, req[r].status)
  /\ req' = [req EXCEPT ![r] =
               IF req[r].status = "accepted" THEN [req[r] EXCEPT !.pc = "m_siblings"]
               ELSE Respond(r, 200)]
  /\ UNCHANGED <<jobs, notifs, reviews, pre>>

\* accepted: the other pending applications of the job are rejected
AdminRejectOthers(r) ==
  /\ req[r].pc = "m_siblings"
  /\ apps' = RejectOtherPending(req[r].job, req[r].app)
  /\ req' = [req EXCEPT ![r] = [req[r] EXCEPT !.pc = "m_fill"]]
  /\ UNCHANGED <<jobs, notifs, reviews, pre>>

\* accepted: the job is marked filled, then the 200 response
AdminFillJob(r) ==
  /\ req[r].pc = "m_fill"
  /\ jobs' = FillJob(req[r].job)
  /\ req' = [req EXCEPT ![r] = Respond(r, 200)]
  /\ UNCHANGED <<apps, notifs, reviews, pre>>

\* ---- GET /api/applications/:id: getApplicationById
\* the request arrives (protect lets every user in)
StartGet(r, u, a) ==
  /\ Free(r)
  /\ pre' = db
  /\ req' = [req EXCEPT ![r] = [NewRequest("get", u, 0, a, "-") EXCEPT !.pc = "g_find"]]
  /\ Unchanged_db

\* JobApplication.findById with details: 404 when no row; an admin is answered
\* with the application, the other roles go on to their ownership query
GetFind(r) ==
  /\ req[r].pc = "g_find"
  /\ LET rows == findById(req[r].app) IN
       req' = [req EXCEPT ![r] =
         IF rows = {} THEN Respond(r, 404)
         ELSE LET application == CHOOSE x \in rows : TRUE
                  found == [req[r] EXCEPT !.job = application.job_id,
                                          !.seeker = application.job_seeker_id] IN
           IF Role(req[r].actor) \in {"job_seeker", "employer"}
             THEN [found EXCEPT !.pc = "g_own"]
           ELSE [found EXCEPT !.pc = "done", !.code = 200, !.data = application]]
  /\ UNCHANGED <<jobs, apps, notifs, reviews, pre>>

\* the ownership query of the role: 403 unless it finds a row
GetOwn(r) ==
  /\ req[r].pc = "g_own"
  /\ req' = [req EXCEPT ![r] =
               IF authorized(req[r].actor, req[r].job, req[r].seeker)
               THEN [Respond(r, 200) EXCEPT !.data = apps[req[r].app]]
               ELSE Respond(r, 403)]
  /\ UNCHANGED <<jobs, apps, notifs, reviews, pre>>

\* ---- PUT /api/jobs/:id: authorize('employer'), updateJobValidation, updateJob
\* the request arrives with a status in its body; authorize runs, then the
\* validation of status
StartUpdateJob(r, u, j, s) ==
  /\ Free(r)
  /\ pre' = db
  /\ LET q == NewRequest("update_job", u, j, 0, s) IN
       req' = [req EXCEPT ![r] =
                 IF Role(u) # "employer" THEN [q EXCEPT !.pc = "done", !.code = 403]
                 ELSE IF s \notin validStatuses THEN [q EXCEPT !.pc = "done", !.code = 400]
                 ELSE [q EXCEPT !.pc = "j_own"]]
  /\ Unchanged_db

\* jobCheck: 404 unless the job exists and belongs to the employer
UpdateJobOwn(r) ==
  /\ req[r].pc = "j_own"
  /\ req' = [req EXCEPT ![r] =
               IF PostedJobRows(req[r].actor, req[r].job) = {} THEN Respond(r, 404)
               ELSE [req[r] EXCEPT !.pc = "j_update"]]
  /\ UNCHANGED <<jobs, apps, notifs, reviews, pre>>

\* Job.update, then the 200 response
UpdateJobWrite(r) ==
  /\ req[r].pc = "j_update"
  /\ jobs' = Job_update(req[r].job, req[r].status)
  /\ req' = [req EXCEPT ![r] = Respond(r, 200)]
  /\ UNCHANGED <<apps, notifs, reviews, pre>>

\* ---- DELETE /api/jobs/:id: authorize('employer'), deleteJob
StartDeleteJob(r, u, j) ==
  /\ Free(r)
  /\ pre' = db
  /\ LET q == NewRequest("delete_job", u, j, 0, "-") IN
       req' = [req EXCEPT ![r] =
                 IF Role(u) # "employer" THEN [q EXCEPT !.pc = "done", !.code = 403]
                 ELSE [q EXCEPT !.pc = "d_own"]]
  /\ Unchanged_db

\* jobCheck: 404 unless the job exists and belongs to the employer
DeleteJobOwn(r) ==
  /\ req[r].pc = "d_own"
  /\ req' = [req EXCEPT ![r] =
               IF PostedJobRows(req[r].actor, req[r].job) = {} THEN Respond(r, 404)
               ELSE [req[r] EXCEPT !.pc = "d_delete"]]
  /\ UNCHANGED <<jobs, apps, notifs, reviews, pre>>

\* Job.delete: the job's row goes and its applications with it
DeleteJobWrite(r) ==
  /\ req[r].pc = "d_delete"
  /\ jobs' = Job_delete(req[r].job)
  /\ apps' = DeletedWithJob(req[r].job)
  /\ req' = [req EXCEPT ![r] = Respond(r, 200)]
  /\ UNCHANGED <<notifs, reviews, pre>>

\* ---- PATCH /api/admin/jobs/:id/status: ensureAdmin, admin updateJobStatus
\* the request arrives; ensureAdmin runs, then the check of status
StartAdminJobStatus(r, u, j, s) ==
  /\ Free(r)
  /\ pre' = db
  /\ LET q == NewRequest("admin_job_status", u, j, 0, s) IN
       req' = [req EXCEPT ![r] =
                 IF ~ensureAdmin(u) THEN [q EXCEPT !.pc = "done", !.code = 403]
                 ELSE IF s \notin validStatuses THEN [q EXCEPT !.pc = "done", !.code = 400]
                 ELSE [q EXCEPT !.pc = "s_check"]]
  /\ Unchanged_db

\* SELECT id FROM jobs WHERE id = $1
AdminJobCheck(r) ==
  /\ req[r].pc = "s_check"
  /\ req' = [req EXCEPT ![r] =
               IF req[r].job \notin DOMAIN jobs THEN Respond(r, 404)
               ELSE [req[r] EXCEPT !.pc = "s_update"]]
  /\ UNCHANGED <<jobs, apps, notifs, reviews, pre>>

\* the UPDATE of the job's status
AdminJobUpdate(r) ==
  /\ req[r].pc = "s_update"
  /\ jobs' = Job_update(req[r].job, req[r].status)
  /\ req' = [req EXCEPT ![r] =
               IF req[r].status \in {"filled", "expired"}
               THEN [req[r] EXCEPT !.pc = "s_reject"]
               ELSE Respond(r, 200)]
  /\ UNCHANGED <<apps, notifs, reviews, pre>>

\* filled or expired: the pending applications of the job are rejected
AdminJobRejectPending(r) ==
  /\ req[r].pc = "s_reject"
  /\ apps' = RejectPending(req[r].job)
  /\ req' = [req EXCEPT ![r] = Respond(r, 200)]
  /\ UNCHANGED <<jobs, notifs, reviews, pre>>

\* ---- DELETE /api/admin/jobs/:id: ensureAdmin, admin deleteJob
StartAdminDeleteJob(r, u, j) ==
  /\ Free(r)
  /\ pre' = db
  /\ LET q == NewRequest("admin_delete_job", u, j, 0, "-") IN
       req' = [req EXCEPT ![r] =
                 IF ~ensureAdmin(u) THEN [q EXCEPT !.pc = "done", !.code = 403]
                 ELSE [q EXCEPT !.pc = "x_check"]]
  /\ Unchanged_db

\* SELECT id FROM jobs WHERE id = $1
AdminDeleteCheck(r) ==
  /\ req[r].pc = "x_check"
  /\ req' = [req EXCEPT ![r] =
               IF req[r].job \notin DOMAIN jobs THEN Respond(r, 404)
               ELSE [req[r] EXCEPT !.pc = "x_delete"]]
  /\ UNCHANGED <<jobs, apps, notifs, reviews, pre>>

\* DELETE FROM jobs: the job's row goes and its applications with it
AdminDeleteWrite(r) ==
  /\ req[r].pc = "x_delete"
  /\ jobs' = Job_delete(req[r].job)
  /\ apps' = DeletedWithJob(req[r].job)
  /\ req' = [req EXCEPT ![r] = Respond(r, 200)]
  /\ UNCHANGED <<notifs, reviews, pre>>

\* ---- PATCH /api/notifications/:id/read: markAsRead
StartMarkAsRead(r, u, n) ==
  /\ Free(r)
  /\ pre' = db
  /\ req' = [req EXCEPT ![r] =
               [NewRequest("mark_read", u, 0, 0, "-") EXCEPT !.notif = n, !.pc = "r_find"]]
  /\ Unchanged_db

\* Notification.findById: 404 when no row, 403 when the row is another user's
MarkFind(r) ==
  /\ req[r].pc = "r_find"
  /\ req' = [req EXCEPT ![r] =
               IF req[r].notif \notin NotifIds THEN Respond(r, 404)
               ELSE IF ~belongsTo(req[r].notif, req[r].actor) THEN Respond(r, 403)
               ELSE [req[r] EXCEPT !.pc = "r_write"]]
  /\ UNCHANGED <<jobs, apps, notifs, reviews, pre>>

\* Notification.markAsRead, then the 200 response
MarkWrite(r) ==
  /\ req[r].pc = "r_write"
  /\ notifs' = markAsRead(req[r].notif)
  /\ req' = [req EXCEPT ![r] = Respond(r, 200)]
  /\ UNCHANGED <<jobs, apps, reviews, pre>>

\* ---- PATCH /api/notifications/read-all: markAllAsRead
StartMarkAllAsRead(r, u) ==
  /\ Free(r)
  /\ pre' = db
  /\ req' = [req EXCEPT ![r] =
               [NewRequest("mark_all", u, 0, 0, "-") EXCEPT !.pc = "l_write"]]
  /\ Unchanged_db

\* Notification.markAllAsRead, then the 200 response carrying the updated ids
MarkAllWrite(r) ==
  /\ req[r].pc = "l_write"
  /\ notifs' = markAllAsRead(req[r].actor)
  /\ req' = [req EXCEPT ![r] =
               [Respond(r, 200) EXCEPT !.updatedIds = updatedRows(req[r].actor)]]
  /\ UNCHANGED <<jobs, apps, reviews, pre>>

\* ---- DELETE /api/notifications/:id: deleteNotification
StartDeleteNotification(r, u, n) ==
  /\ Free(r)
  /\ pre' = db
  /\ req' = [req EXCEPT ![r] =
               [NewRequest("delete_notif", u, 0, 0, "-") EXCEPT !.notif = n, !.pc = "k_find"]]
  /\ Unchanged_db

\* Notification.findById: 404 when no row, 403 when the row is another user's
DeleteNotificationFind(r) ==
  /\ req[r].pc = "k_find"
  /\ req' = [req EXCEPT ![r] =
               IF req[r].notif \notin NotifIds THEN Respond(r, 404)
               ELSE IF ~belongsTo(req[r].notif, req[r].actor) THEN Respond(r, 403)
               ELSE [req[r] EXCEPT !.pc = "k_write"]]
  /\ UNCHANGED <<jobs, apps, notifs, reviews, pre>>

\* Notification.delete, then the 200 response
DeleteNotificationWrite(r) ==
  /\ req[r].pc = "k_write"
  /\ notifs' = Notification_delete(req[r].notif)
  /\ req' = [req EXCEPT ![r] = Respond(r, 200)]
  /\ UNCHANGED <<jobs, apps, reviews, pre>>

\* ---- POST /api/auth/register: register
\* a role test that lets every role through
roleAllowed_Any(role) == TRUE

\* ['job_seeker', 'employer'].includes(role): the list of the route's
\* validation rule and of the handler's first test
roleAllowed(role) == role \in {"job_seeker", "employer"}

\* SELECT * FROM users WHERE email = $1
userExists(email) == { u \in Users : EmailOf(u) = email }

\* the route's validation rules answer 400 for a role outside the list, and so
\* does the handler's own test; the caller is not authenticated
StartRegister(r, email, role) ==
  /\ Free(r)
  /\ pre' = db
  /\ req' = [req EXCEPT ![r] =
               LET q == [NewRequest("register", "-", 0, 0, "-")
                           EXCEPT !.email = email, !.role = role, !.pc = "reg_exists"]
               IN IF roleAllowed(role) THEN q
                  ELSE [q EXCEPT !.pc = "done", !.code = 400]]
  /\ Unchanged_db

\* the e-mail lookup: 400 when a user has the e-mail; otherwise the password
\* is hashed (no query) and the handler goes on to take a pool client
RegisterExists(r) ==
  /\ req[r].pc = "reg_exists"
  /\ req' = [req EXCEPT ![r] =
               IF userExists(req[r].email) # {} THEN Respond(r, 400)
               ELSE [req[r] EXCEPT !.pc = "reg_connect"]]
  /\ UNCHANGED <<jobs, apps, notifs, reviews, pre>>

\* const client = await query.pool.connect(): query is the function exported
\* by db/connection.js, which has no pool property (the pool is a separate
\* export), so the expression throws a TypeError before BEGIN; the outer
\* catch passes it to the error handler, which answers 500.  The transaction
\* that follows in the handler (BEGIN, the two INSERTs, COMMIT, ROLLBACK) is
\* never entered, which is why the users and profile rows are fixed sets here.
RegisterConnect(r) ==
  /\ req[r].pc = "reg_connect"
  /\ req' = [req EXCEPT ![r] = [Respond(r, 500) EXCEPT !.failed = "reg_connect"]]
  /\ UNCHANGED <<jobs, apps, notifs, reviews, pre>>

\* ---- POST /api/reviews: createReview
\* SELECT id FROM reviews WHERE reviewer_id = $1 AND reviewee_id = $2 AND job_id = $3
existingReviewRows(reviewerId, revieweeId, jobId) ==
  { i \in DOMAIN reviews : /\ reviews[i].reviewer_id = reviewerId
                            /\ reviews[i].reviewee_id = revieweeId
                            /\ reviews[i].job_id = jobId }

\* SELECT ja.id FROM job_applications ja JOIN jobs j JOIN employer_profiles ep
\*   JOIN job_seeker_profiles jsp WHERE j.id = $1 AND ((ep.user_id = $2 AND
\*   jsp.user_id = $3) OR (ep.user_id = $3 AND jsp.user_id = $2))
\*   AND ja.status = 'accepted'
acceptedApplicationRows(jobId, reviewerId, revieweeId) ==
  { i \in AppIds :
      /\ apps[i].job_id = jobId /\ jobId \in DOMAIN jobs
      /\ apps[i].status = "accepted"
      /\ \E ep \in employer_profiles, jsp \in job_seeker_profiles :
           /\ ep.id = jobs[jobId].employer_id
           /\ jsp.id = apps[i].job_seeker_id
           /\ \/ ep.user_id = reviewerId /\ jsp.user_id = revieweeId
              \/ ep.user_id = revieweeId /\ jsp.user_id = reviewerId }

\* INSERT INTO reviews (reviewer_id, reviewee_id, job_id, rating, comment)
Review_create(reviewerId, revieweeId, jobId) ==
  Append(reviews, [reviewer_id |-> reviewerId, reviewee_id |-> revieweeId,
                   job_id |-> jobId])

\* the request arrives (protect lets every user in)
StartCreateReview(r, u, revieweeId, j) ==
  /\ Free(r)
  /\ pre' = db
  /\ req' = [req EXCEPT ![r] =
               [NewRequest("create_review", u, j, 0, "-")
                  EXCEPT !.revieweeId = revieweeId, !.pc = "v_existing"]]
  /\ Unchanged_db

\* Review.canReview, first query: 400 when the reviewer has already reviewed
\* the reviewee for the job
ReviewExisting(r) ==
  /\ req[r].pc = "v_existing"
  /\ req' = [req EXCEPT ![r] =
               IF existingReviewRows(req[r].actor, req[r].revieweeId, req[r].job) # {}
               THEN Respond(r, 400)
               ELSE [req[r] EXCEPT !.pc = "v_accepted"]]
  /\ UNCHANGED <<jobs, apps, notifs, reviews, pre>>

\* Review.canReview, second query: 400 when no accepted application of the
\* job links the two users
ReviewAccepted(r) ==
  /\ req[r].pc = "v_accepted"
  /\ req' = [req EXCEPT ![r] =
               IF acceptedApplicationRows(req[r].job, req[r].actor, req[r].revieweeId) = {}
               THEN Respond(r, 400)
               ELSE [req[r] EXCEPT !.pc = "v_create"]]
  /\ UNCHANGED <<jobs, apps, notifs, reviews, pre>>

\* Review.create
ReviewCreate(r) ==
  /\ req[r].pc = "v_create"
  /\ Len(reviews) < MaxReviews
  /\ reviews' = Review_create(req[r].actor, req[r].revieweeId, req[r].job)
  /\ req' = [req EXCEPT ![r] = [req[r] EXCEPT !.pc = "v_notify"]]
  /\ UNCHANGED <<jobs, apps, notifs, pre>>

\* Notification.createReviewNotification for the reviewee, then the 201
\* response
ReviewNotify(r) ==
  /\ req[r].pc = "v_notify"
  /\ Len(notifs) < MaxNotifs
  /\ notifs' = createNotification(req[r].revieweeId, "new_review", Len(reviews))
  /\ req' = [req EXCEPT ![r] = Respond(r, 201)]
  /\ UNCHANGED <<jobs, apps, reviews, pre>>

\* ---- a query throws (connection.js query rethrows the storage error)
\* inside the notification try block of updateApplicationStatus the error is
\* logged and the 200 response still sent; everywhere else the handler's catch
\* passes it to the error handler, which answers 500
\* every catch passing the error on
FailureCode_Propagates(pc) == 500

FailureCode(pc) == IF pc \in {"u_details", "u_notify"} THEN 200 ELSE 500

QueryFails(r) ==
  /\ req[r].pc \notin {"idle", "done"}
  /\ req' = [req EXCEPT ![r] =
               [Respond(r, FailureCode(req[r].pc)) EXCEPT !.failed = req[r].pc]]
  /\ UNCHANGED <<jobs, apps, notifs, reviews, pre>>

\* the response has gone out and the handling of the request ends
Close(r) ==
  /\ req[r].pc = "done"
  /\ req' = [req EXCEPT ![r] = NoRequest]
  /\ pre' = db
  /\ Unchanged_db

\* ------------------------------------------------------------ specifications
\* the steps of POST /api/applications
ApplyStep(r) ==
  \/ ApplyJob(r) \/ ApplyHasApplied(r) \/ ApplyCreate(r)
  \/ ApplyEmployer(r) \/ ApplyNotify(r)

\* the steps of PATCH /api/applications/:id/status
UpdateStep(r) ==
  \/ UpdateFind(r) \/ UpdateOwn(r) \/ UpdateStatus(r)
  \/ UpdateDetails(r) \/ UpdateNotify(r)

\* the steps of PATCH /api/admin/applications/:id/status
AdminStep(r) ==
  \/ AdminCheck(r) \/ AdminUpdate(r) \/ AdminRejectOthers(r) \/ AdminFillJob(r)

\* the steps of the job endpoints
JobStep(r) ==
  \/ UpdateJobOwn(r) \/ UpdateJobWrite(r)
  \/ DeleteJobOwn(r) \/ DeleteJobWrite(r)
  \/ AdminJobCheck(r) \/ AdminJobUpdate(r) \/ AdminJobRejectPending(r)
  \/ AdminDeleteCheck(r) \/ AdminDeleteWrite(r)

\* the steps of the notification endpoints
NotificationStep(r) ==
  \/ MarkFind(r) \/ MarkWrite(r) \/ MarkAllWrite(r)
  \/ DeleteNotificationFind(r) \/ DeleteNotificationWrite(r)

\* the application endpoints, one request at a time, any principal, any input
Next ==
  \/ \E u \in Users, j \in JobIdInputs : StartApply(1, u, j)
  \/ \E u \in Users, a \in AppIdInputs, s \in StatusInputs : StartUpdate(1, u, a, s)
  \/ \E u \in Users, a \in AppIdInputs, s \in StatusInputs : StartAdminUpdate(1, u, a, s)
  \/ \E u \in Users, a \in AppIdInputs : StartGet(1, u, a)
  \/ ApplyStep(1) \/ UpdateStep(1) \/ AdminStep(1)
  \/ GetFind(1) \/ GetOwn(1)
  \/ Close(1)

Spec == Init /\ [][Next]_vars

\* two requests at once: job seekers applying for job 1 and the admin
\* accepting applications, each query of which may fail
NextRace ==
  \E r \in Slots :
    \/ \E u \in Seekers : StartApply(r, u, 1)
    \/ \E a \in AppIdInputs : StartAdminUpdate(r, "ad", a, "accepted")
    \/ ApplyStep(r) \/ AdminStep(r)
    \/ QueryFails(r) \/ Close(r)

SpecRace == Init /\ [][NextRace]_vars

\* the job endpoints with the application endpoints they interact with, one
\* request at a time: both job seekers apply for job 1 and s1 for job 2, the
\* admin sets application statuses, the employers and the admin set the
\* status of jobs 1 and 2 and delete them (a deleted job is a missing one to
\* the requests that follow)
NextJobs ==
  \/ \E u \in Seekers : StartApply(1, u, 1)
  \/ StartApply(1, "s1", 2)
  \/ \E a \in AppIdInputs, s \in validStatusValues : StartAdminUpdate(1, "ad", a, s)
  \/ \E u \in Employers, j \in {1, 2}, s \in validStatuses : StartUpdateJob(1, u, j, s)
  \/ \E u \in Employers, j \in {1, 2} : StartDeleteJob(1, u, j)
  \/ \E j \in {1, 2}, s \in validStatuses : StartAdminJobStatus(1, "ad", j, s)
  \/ \E j \in {1, 2} : StartAdminDeleteJob(1, "ad", j)
  \/ ApplyStep(1) \/ AdminStep(1) \/ JobStep(1)
  \/ Close(1)

SpecJobs == Init /\ [][NextJobs]_vars

\* applying for job 1 and setting the status of its applications through
\* PATCH /api/applications/:id/status (the owner accepts or rejects, a job
\* seeker withdraws, the admin resets to pending), one request at a time,
\* each query of which may fail
NextFault ==
  \/ \E u \in Seekers : StartApply(1, u, 1)
  \/ \E a \in AppIdInputs, s \in {"accepted", "rejected"} : StartUpdate(1, "e1", a, s)
  \/ \E u \in Seekers, a \in AppIdInputs : StartUpdate(1, u, a, "withdrawn")
  \/ \E a \in AppIdInputs : StartUpdate(1, "ad", a, "pending")
  \/ ApplyStep(1) \/ UpdateStep(1)
  \/ QueryFails(1) \/ Close(1)

SpecFault == Init /\ [][NextFault]_vars

\* applications of job 1 and their notifications, one request at a time: job
\* seekers apply, the owner and the applicants set statuses, and any user
\* marks as read or deletes a notification
NextNotif ==
  \/ \E u \in Seekers : StartApply(1, u, 1)
  \/ \E a \in AppIdInputs, s \in {"accepted", "rejected"} : StartUpdate(1, "e1", a, s)
  \/ \E u \in Seekers, a \in AppIdInputs : StartUpdate(1, u, a, "withdrawn")
  \/ \E u \in Users, n \in NotifIdInputs : StartMarkAsRead(1, u, n)
  \/ \E u \in Users, n \in NotifIdInputs : StartDeleteNotification(1, u, n)
  \/ \E u \in Users : StartMarkAllAsRead(1, u)
  \/ ApplyStep(1) \/ UpdateStep(1) \/ NotificationStep(1)
  \/ Close(1)

SpecNotif == Init /\ [][NextNotif]_vars

\* ------------------------------------------------------- the claims' words
Done(r) == req[r].pc = "done"

\* user u is the employer who posted job j, as the request found the tables
Owns(u, j) ==
  /\ j \in DOMAIN pre.jobs
  /\ \E ep \in employer_profiles : ep.user_id = u /\ ep.id = pre.jobs[j].employer_id

\* user u is the applicant of application a, as the request found the tables
IsApplicant(u, a) ==
  \E p \in job_seeker_profiles : p.user_id = u /\ p.id = pre.apps[a].job_seeker_id

\* application a existed when the request arrived
Existed(a) == a \in DOMAIN pre.apps /\ pre.apps[a] # NoApplication

\* the other applications of a's job that were pending when the request arrived
PendingSiblings(a) ==
  { i \in DOMAIN pre.apps : i # a /\ pre.apps[i].job_id = pre.apps[a].job_id
                            /\ pre.apps[i].status = "pending" }

\* the acceptance of application a is complete: a accepted, its pending
\* siblings rejected, its job filled
Cascaded(a) ==
  /\ apps[a].status = "accepted"
  /\ \A i \in PendingSiblings(a) : apps[i].status = "rejected"
  /\ jobs[apps[a].job_id].status = "filled"

\* C1: through PATCH /api/applications/:id/status, when the employer's
\* acceptance of an application is answered 200, the application is accepted,
\* the job is filled and every other application of the job that was pending
\* is rejected.
C1_RegularAcceptCascades ==
  \A r \in Slots :
    ( /\ Done(r) /\ req[r].op = "update" /\ Role(req[r].actor) = "employer"
      /\ req[r].status = "accepted" /\ req[r].code = 200 )
    => Cascaded(req[r].app)

\* C2: through PATCH /api/admin/applications/:id/status, when setting an
\* existing application to accepted is answered 200, the application is
\* accepted, every other application of its job that was pending is rejected,
\* and the job is filled.
C2_AdminAcceptCascades ==
  \A r \in Slots :
    ( /\ Done(r) /\ req[r].op = "admin_update" /\ Existed(req[r].app)
      /\ req[r].status = "accepted" /\ req[r].code = 200 )
    => Cascaded(req[r].app)

\* C2 happens: an admin acceptance answered 200 that rejected a pending sibling
\* and filled an active job
C2_Witness ==
  \E r \in Slots :
    /\ Done(r) /\ req[r].op = "admin_update" /\ req[r].status = "accepted"
    /\ req[r].code = 200 /\ Existed(req[r].app)
    /\ PendingSiblings(req[r].app) # {}
    /\ pre.jobs[pre.apps[req[r].app].job_id].status = "active"
    /\ Cascaded(req[r].app)

\* C3: in every reachable state at most one application of a job is accepted.
C3_AtMostOneAccepted ==
  \A j \in DOMAIN jobs :
    Cardinality({ i \in DOMAIN apps : apps[i].job_id = j /\ apps[i].status = "accepted" }) <= 1

\* C4: in every reachable state, concurrent applyForJob requests included, at
\* most one application row exists per (job, job seeker) pair.
C4_UniquePair ==
  \A i, k \in DOMAIN apps :
    (apps[i].job_id = apps[k].job_id /\ apps[i].job_seeker_id = apps[k].job_seeker_id)
    => i = k

\* C5: the acceptance cascade is atomic: in no state a concurrent request can
\* read, and in no state a failed query leaves behind, is an application of a
\* job accepted while a sibling is still pending or the job is not yet filled.
C5_CascadeAtomic ==
  \A a \in DOMAIN apps :
    apps[a].status = "accepted" =>
      /\ jobs[apps[a].job_id].status = "filled"
      /\ \A i \in DOMAIN apps :
           (i # a /\ apps[i].job_id = apps[a].job_id) => apps[i].status # "pending"

\* the request of slot r is one the status rules permit
Permitted(r) ==
  LET q == req[r] IN
    /\ q.status \in {"pending", "accepted", "rejected", "withdrawn"}
    /\ Existed(q.app)
    /\ \/ Role(q.actor) = "admin"
       \/ /\ q.op = "update" /\ Role(q.actor) = "employer"
          /\ Owns(q.actor, pre.apps[q.app].job_id)
          /\ q.status \in {"accepted", "rejected"}
       \/ /\ q.op = "update" /\ Role(q.actor) = "job_seeker"
          /\ IsApplicant(q.actor, q.app)
          /\ q.status = "withdrawn"

\* C6: a status-transition request changes anything, and is answered 200 with
\* the application in the requested status, only if the status is one of the
\* four, the application exists, and the actor is an admin, or the employer
\* who owns the job requesting accepted or rejected, or the applicant
\* requesting withdrawn; every other request is answered 400, 404 or 403 and
\* leaves applications, jobs and notifications as they were.
C6_OnlyPermittedTransitions ==
  \A r \in Slots :
    req[r].op \in {"update", "admin_update"} =>
      /\ db # pre => Permitted(r)
      /\ (Done(r) /\ req[r].code = 200) =>
           (Permitted(r) /\ apps[req[r].app].status = req[r].status)
      /\ (Done(r) /\ ~Permitted(r)) =>
           (req[r].code \in {400, 403, 404} /\ db = pre)

\* C6 happens: a job seeker who is not the applicant asks to withdraw an
\* existing application and is answered 403 with the tables as they were
C6_Witness ==
  \E r \in Slots :
    /\ Done(r) /\ req[r].op = "update" /\ Role(req[r].actor) = "job_seeker"
    /\ req[r].status = "withdrawn" /\ Existed(req[r].app)
    /\ ~IsApplicant(req[r].actor, req[r].app)
    /\ req[r].code = 403 /\ db = pre

\* C7: an employer who does not own the job of an existing application and
\* requests accepted or rejected for it is answered 403, and the statuses of
\* the application, of its siblings and of the job stay as they were.
C7_NonOwnerForbidden ==
  \A r \in Slots :
    ( /\ Done(r) /\ req[r].op = "update" /\ Role(req[r].actor) = "employer"
      /\ Existed(req[r].app) /\ ~Owns(req[r].actor, pre.apps[req[r].app].job_id)
      /\ req[r].status \in {"accepted", "rejected"} )
    => (req[r].code = 403 /\ apps = pre.apps /\ jobs = pre.jobs)

\* C7 happens: employer e2 asks to accept an application of a job of e1 that
\* has a pending sibling and is answered 403
C7_Witness ==
  \E r \in Slots :
    /\ Done(r) /\ req[r].op = "update" /\ req[r].actor = "e2"
    /\ Existed(req[r].app) /\ ~Owns("e2", pre.apps[req[r].app].job_id)
    /\ req[r].status = "accepted" /\ req[r].code = 403
    /\ PendingSiblings(req[r].app) # {}
    /\ apps = pre.apps /\ jobs = pre.jobs

\* C8: for an existing application, an employer requesting one of the four
\* statuses outside accepted and rejected, and a job seeker requesting one
\* other than withdrawn, are answered 400 whether or not they own the job or
\* are the applicant; the ownership query is issued only after that check.
C8_RoleCheckBeforeOwnership ==
  \A r \in Slots :
    req[r].op = "update" =>
      /\ ( /\ Done(r) /\ Existed(req[r].app)
           /\ \/ /\ Role(req[r].actor) = "employer"
                 /\ req[r].status \in {"pending", "withdrawn"}
              \/ /\ Role(req[r].actor) = "job_seeker"
                 /\ req[r].status \in {"pending", "accepted", "rejected"} )
         => req[r].code = 400
      /\ req[r].pc = "u_own" =>
           /\ Role(req[r].actor) = "employer" => req[r].status \in {"accepted", "rejected"}
           /\ Role(req[r].actor) = "job_seeker" => req[r].status = "withdrawn"

\* C8 happens: an employer who does not own the job asks for withdrawn and is
\* answered 400, not 403
C8_Witness ==
  \E r \in Slots :
    /\ Done(r) /\ req[r].op = "update" /\ Role(req[r].actor) = "employer"
    /\ Existed(req[r].app) /\ ~Owns(req[r].actor, pre.apps[req[r].app].job_id)
    /\ req[r].status = "withdrawn" /\ req[r].code = 400

\* C9: an application row is created only by an apply request of a job
\* seeker with a profile, only for a job that exists and is active, as one row
\* with status pending for the actor's own profile, and the request is then
\* answered 201; a job seeker's request for a missing or not active job is
\* answered 404 and creates no row.
C9_CreateOnlyForActiveJob ==
  /\ Len(apps) # Len(pre.apps) =>
       \E r \in Slots :
         /\ req[r].op = "apply"
         /\ Role(req[r].actor) = "job_seeker"
         /\ req[r].job \in DOMAIN pre.jobs
         /\ pre.jobs[req[r].job].status = "active"
         /\ \E p \in job_seeker_profiles :
              /\ p.user_id = req[r].actor
              /\ apps = Append(pre.apps, [job_id |-> req[r].job,
                                          job_seeker_id |-> p.id,
                                          status |-> "pending"])
  /\ \A r \in Slots :
       req[r].op = "apply" =>
         /\ apps # pre.apps => Len(apps) = Len(pre.apps) + 1
         /\ Done(r) => (req[r].code = 201 <=> apps # pre.apps)
         /\ ( /\ Done(r) /\ Role(req[r].actor) = "job_seeker"
              /\ \/ req[r].job \notin DOMAIN pre.jobs
                 \/ pre.jobs[req[r].job].status # "active" )
            => (req[r].code = 404 /\ apps = pre.apps)

\* C9 happens: an apply request for an active job answered 201 with its row
C9_Witness ==
  \E r \in Slots :
    /\ Done(r) /\ req[r].op = "apply" /\ req[r].code = 201
    /\ pre.jobs[req[r].job].status = "active"
    /\ Len(apps) = Len(pre.apps) + 1
    /\ apps[Len(apps)].status = "pending"

\* the pair of the apply request of slot r had a row when the request arrived
Duplicate(r) ==
  \E i \in DOMAIN pre.apps, p \in job_seeker_profiles :
    /\ p.user_id = req[r].actor
    /\ pre.apps[i].job_seeker_id = p.id
    /\ pre.apps[i].job_id = req[r].job

\* C10 as stated: if an application exists for the pair, whatever its status,
\* a further apply for the pair is answered 400 and creates no application and
\* no notification.
C10_DuplicateIs400 ==
  \A r \in Slots :
    (Done(r) /\ req[r].op = "apply" /\ Duplicate(r))
    => (req[r].code = 400 /\ apps = pre.apps /\ notifs = pre.notifs)

\* C10 amended: if an application exists for the pair, whatever its status, a
\* further apply for the pair creates no application and no notification; it
\* is answered 400 while the job is active and 404 once the job is not active.
C10_DuplicateRejected ==
  \A r \in Slots :
    (Done(r) /\ req[r].op = "apply" /\ Duplicate(r))
    => /\ apps = pre.apps /\ notifs = pre.notifs
       /\ req[r].code = IF pre.jobs[req[r].job].status = "active" THEN 400 ELSE 404

\* C10 happens: a job seeker applies again after withdrawing and is answered 400
C10_Witness ==
  \E r \in Slots :
    /\ Done(r) /\ req[r].op = "apply" /\ req[r].code = 400
    /\ \E i \in DOMAIN pre.apps :
         /\ pre.apps[i].job_id = req[r].job
         /\ IsApplicant(req[r].actor, i)
         /\ pre.apps[i].status = "withdrawn"
    /\ apps = pre.apps /\ notifs = pre.notifs

\* C11: while and after an admin's request to accept an application of job J
\* is handled, only J's status and the statuses of J's other applications
\* that were pending differ from what the request found: the other
\* applications of J that were accepted, rejected or withdrawn, the
\* applications of every other job, every other job, and the notifications
\* are as they were, and no row is added or removed.
C11_CascadeFrame ==
  \A r \in Slots :
    ( /\ req[r].op = "admin_update" /\ req[r].status = "accepted"
      /\ Existed(req[r].app) )
    => LET a == req[r].app
           J == pre.apps[a].job_id IN
         /\ DOMAIN apps = DOMAIN pre.apps
         /\ \A i \in DOMAIN pre.apps :
              /\ apps[i].job_id = pre.apps[i].job_id
              /\ apps[i].job_seeker_id = pre.apps[i].job_seeker_id
              /\ (i # a /\ (pre.apps[i].job_id # J \/ pre.apps[i].status # "pending"))
                   => apps[i].status = pre.apps[i].status
         /\ DOMAIN jobs = DOMAIN pre.jobs
         /\ \A j \in DOMAIN pre.jobs :
              /\ jobs[j].employer_id = pre.jobs[j].employer_id
              /\ j # J => jobs[j].status = pre.jobs[j].status
         /\ notifs = pre.notifs

\* C11 happens: an admin acceptance answered 200 that filled the job and
\* left a withdrawn or rejected sibling and the other job as they were
C11_Witness ==
  \E r \in Slots :
    /\ Done(r) /\ req[r].op = "admin_update" /\ req[r].status = "accepted"
    /\ req[r].code = 200 /\ Existed(req[r].app)
    /\ jobs[pre.apps[req[r].app].job_id].status = "filled"
    /\ pre.jobs[pre.apps[req[r].app].job_id].status # "filled"
    /\ \E i \in DOMAIN pre.apps :
         /\ i # req[r].app
         /\ pre.apps[i].job_id = pre.apps[req[r].app].job_id
         /\ pre.apps[i].status \in {"rejected", "withdrawn"}
         /\ apps[i] = pre.apps[i]
    /\ \E j \in DOMAIN jobs : j # pre.apps[req[r].app].job_id /\ jobs[j] = pre.jobs[j]

\* C12: every status transition answered 200, whatever the actor's role and
\* through either status endpoint, has added one application_status
\* notification about the application to the notifications table.
C12_EveryTransitionNotifies ==
  \A r \in Slots :
    ( /\ Done(r) /\ req[r].op \in {"update", "admin_update"} /\ req[r].code = 200 )
    => /\ Len(notifs) = Len(pre.notifs) + 1
       /\ SubSeq(notifs, 1, Len(pre.notifs)) = pre.notifs
       /\ notifs[Len(notifs)].type = "application_status"
       /\ notifs[Len(notifs)].related_id = req[r].app

\* C13: when the details query or the creation of the notification throws
\* during a status update that passed its checks, the request is answered
\* 200 and the application keeps the requested status; nothing else of the
\* tables differs from what the request found.
C13_NotificationFailureSwallowed ==
  \A r \in Slots :
    ( /\ Done(r) /\ req[r].op = "update"
      /\ req[r].failed \in {"u_details", "u_notify"} )
    => /\ req[r].code = 200
       /\ Permitted(r)
       /\ apps = [i \in DOMAIN pre.apps |->
                    IF i = req[r].app THEN [pre.apps[i] EXCEPT !.status = req[r].status]
                    ELSE pre.apps[i]]
       /\ jobs = pre.jobs /\ notifs = pre.notifs

\* C13 happens: the creation of the notification about an employer's
\* acceptance threw, the request was answered 200, and the application that
\* was pending is accepted
C13_Witness ==
  \E r \in Slots :
    /\ Done(r) /\ req[r].op = "update" /\ req[r].failed = "u_notify"
    /\ Role(req[r].actor) = "employer" /\ req[r].status = "accepted"
    /\ req[r].code = 200
    /\ pre.apps[req[r].app].status = "pending"
    /\ apps[req[r].app].status = "accepted"
    /\ notifs = pre.notifs

\* C14: when the creation of a notification throws, in applyForJob as in
\* updateApplicationStatus, the request is still answered with its success
\* code (201, 200) and the row it wrote stays.
C14_DispatchFailureContained ==
  \A r \in Slots :
    /\ (Done(r) /\ req[r].op = "apply" /\ req[r].failed = "a_notify")
         => (req[r].code = 201 /\ Len(apps) = Len(pre.apps) + 1)
    /\ (Done(r) /\ req[r].op = "update" /\ req[r].failed = "u_notify")
         => (req[r].code = 200 /\ apps[req[r].app].status = req[r].status)

\* C15 as stated: an application that was accepted when a request arrived is
\* accepted whatever the request does.
C15_AcceptanceOneWay ==
  \A i \in DOMAIN pre.apps :
    pre.apps[i].status = "accepted" => apps[i].status = "accepted"

\* C15 amended: an accepted application leaves accepted only by a
\* status-transition request that names it, sent by an admin (any status),
\* by the employer who owns the job (rejected) or by the applicant
\* (withdrawn), and it then has the requested status; apply requests, views
\* and the transitions of other applications, their cascade included, leave
\* it accepted.
C15_AcceptedLeavesByOwnTransition ==
  \A i \in DOMAIN pre.apps :
    (pre.apps[i].status = "accepted" /\ apps[i].status # "accepted")
    => \E r \in Slots :
         /\ req[r].op \in {"update", "admin_update"}
         /\ req[r].app = i
         /\ Permitted(r)
         /\ req[r].status # "accepted"
         /\ apps[i].status = req[r].status

\* C15 happens: the applicant withdraws an accepted application and is
\* answered 200
C15_Witness ==
  \E r \in Slots :
    /\ Done(r) /\ req[r].op = "update" /\ Role(req[r].actor) = "job_seeker"
    /\ req[r].code = 200 /\ Existed(req[r].app)
    /\ pre.apps[req[r].app].status = "accepted"
    /\ apps[req[r].app].status = "withdrawn"

\* the request of slot r is a job-status update its endpoint lets through:
\* the owner's PUT /api/jobs/:id or the admin's PATCH /api/admin/jobs/:id/status
SetsJobStatus(r) ==
  /\ req[r].status \in {"active", "filled", "expired", "draft"}
  /\ req[r].job \in DOMAIN pre.jobs
  /\ \/ req[r].op = "update_job" /\ Owns(req[r].actor, req[r].job)
     \/ req[r].op = "admin_job_status" /\ Role(req[r].actor) = "admin"

\* C16 as stated: a job that was filled when a request arrived, and is not
\* deleted, is filled whatever the request does.
C16_FillingOneWay ==
  \A j \in DOMAIN pre.jobs \cap DOMAIN jobs :
    pre.jobs[j].status = "filled" => jobs[j].status = "filled"

\* C16 amended: a filled job leaves filled only by a job update of its owner
\* that carries a status or by the admin's job-status update, naming that
\* job, and it then has the requested status; apply requests, application
\* status transitions, and updates and deletions of other jobs leave it filled.
C16_FilledLeavesByJobUpdate ==
  \A j \in DOMAIN pre.jobs \cap DOMAIN jobs :
    (pre.jobs[j].status = "filled" /\ jobs[j].status # "filled")
    => \E r \in Slots :
         /\ SetsJobStatus(r)
         /\ req[r].job = j
         /\ req[r].status # "filled"
         /\ jobs[j].status = req[r].status

\* C16 happens: the owner sets a filled job that has an accepted application
\* back to active and is answered 200
C16_Witness ==
  \E r \in Slots :
    /\ Done(r) /\ req[r].op = "update_job" /\ req[r].code = 200
    /\ Owns(req[r].actor, req[r].job)
    /\ pre.jobs[req[r].job].status = "filled"
    /\ jobs[req[r].job].status = "active"
    /\ \E i \in AppIds : apps[i].job_id = req[r].job /\ apps[i].status = "accepted"

\* C17 as stated: every application row ever created is in the table.
C17_NeverDeleted == AppIds = DOMAIN apps

\* C17 amended: an application row leaves the table only with its job, when
\* the owner's or the admin's job deletion deletes that job, whatever the
\* application's status; no other request removes a row, and every row in
\* the table is of a job in the jobs table.
C17_DeletedOnlyWithJob ==
  /\ \A i \in DOMAIN pre.apps :
       (pre.apps[i] # NoApplication /\ apps[i] = NoApplication)
       => \E r \in Slots :
            /\ req[r].job = pre.apps[i].job_id
            /\ req[r].job \notin DOMAIN jobs
            /\ \/ req[r].op = "delete_job" /\ Owns(req[r].actor, req[r].job)
               \/ req[r].op = "admin_delete_job" /\ Role(req[r].actor) = "admin"
  /\ \A i \in AppIds : apps[i].job_id \in DOMAIN jobs
  /\ \A r \in Slots :
       (Done(r) /\ req[r].op \in {"delete_job", "admin_delete_job"} /\ req[r].code = 200)
       => /\ req[r].job \notin DOMAIN jobs
          /\ \A i \in AppIds : apps[i] = pre.apps[i]

\* C17 happens: the owner deletes a job and its accepted application is gone
\* while the application of the other job stays
C17_Witness ==
  \E r \in Slots :
    /\ Done(r) /\ req[r].op = "delete_job" /\ req[r].code = 200
    /\ \E i \in DOMAIN pre.apps :
         /\ pre.apps[i].job_id = req[r].job /\ pre.apps[i].status = "accepted"
         /\ apps[i] = NoApplication
    /\ \E k \in AppIds : apps[k] = pre.apps[k]

\* C18 as stated: the status of an application in the table differs from
\* what the request being handled found only if that request is a status
\* transition of an application.
C18_StatusOnlyByTransition ==
  \A i \in DOMAIN pre.apps \cap AppIds :
    apps[i].status # pre.apps[i].status
    => \E r \in Slots : req[r].op \in {"update", "admin_update"}

\* C18 amended: of the requests that are not status transitions of an
\* application, only the admin's job-status update to filled or expired
\* changes application statuses: it sets the applications of that job that
\* were pending to rejected, all of them by the time it is answered 200, and
\* no other; apply requests, the owner's job update whatever status it sets,
\* the admin's job-status update to active or draft and job deletions leave
\* the status of every application in the table as it was.
C18_StatusByTransitionOrJobClosing ==
  /\ \A i \in DOMAIN pre.apps \cap AppIds :
       apps[i].status # pre.apps[i].status
       => \E r \in Slots :
            \/ req[r].op \in {"update", "admin_update"}
            \/ /\ req[r].op = "admin_job_status" /\ Role(req[r].actor) = "admin"
               /\ req[r].status \in {"filled", "expired"}
               /\ pre.apps[i].job_id = req[r].job
               /\ pre.apps[i].status = "pending"
               /\ apps[i].status = "rejected"
  /\ \A r \in Slots :
       ( /\ Done(r) /\ req[r].op = "admin_job_status" /\ req[r].code = 200
         /\ req[r].status \in {"filled", "expired"} )
       => \A i \in AppIds : apps[i].job_id = req[r].job => apps[i].status # "pending"

\* C18 happens: the admin sets a job to expired and is answered 200; its
\* pending application is rejected and its accepted one still accepted
C18_Witness ==
  \E r \in Slots :
    /\ Done(r) /\ req[r].op = "admin_job_status" /\ req[r].status = "expired"
    /\ req[r].code = 200
    /\ \E i, k \in DOMAIN pre.apps :
         /\ pre.apps[i].job_id = req[r].job /\ pre.apps[i].status = "pending"
         /\ apps[i].status = "rejected"
         /\ pre.apps[k].job_id = req[r].job /\ pre.apps[k].status = "accepted"
         /\ apps[k].status = "accepted"

\* the actor of slot r may view application a: its applicant, the employer
\* who posted its job, or an admin
MayView(r, a) ==
  \/ Role(req[r].actor) = "admin"
  \/ Role(req[r].actor) = "job_seeker" /\ IsApplicant(req[r].actor, a)
  \/ Role(req[r].actor) = "employer" /\ Owns(req[r].actor, pre.apps[a].job_id)

\* C19: a GET /api/applications/:id for an existing application is answered
\* 200 with the application when the actor is its applicant, the employer
\* who posted its job or an admin, and 403 without application data for
\* every other actor; it changes nothing.
C19_ViewOnlyByParties ==
  \A r \in Slots :
    (Done(r) /\ req[r].op = "get" /\ Existed(req[r].app))
    => /\ MayView(r, req[r].app)
            => (req[r].code = 200 /\ req[r].data = pre.apps[req[r].app])
       /\ ~MayView(r, req[r].app)
            => (req[r].code = 403 /\ req[r].data = NoApplication)
       /\ db = pre

\* C19 happens: an employer who did not post the job asks for an application
\* and is answered 403 without it
C19_Witness ==
  \E r \in Slots :
    /\ Done(r) /\ req[r].op = "get" /\ Existed(req[r].app)
    /\ Role(req[r].actor) = "employer"
    /\ ~Owns(req[r].actor, pre.apps[req[r].app].job_id)
    /\ req[r].code = 403 /\ req[r].data = NoApplication

\* notification n was in the table when the request arrived
NotifExisted(n) == n \in DOMAIN pre.notifs /\ pre.notifs[n] # NoNotification

\* the actor of slot r owns notification n
OwnsNotif(r, n) == NotifExisted(n) /\ pre.notifs[n].user_id = req[r].actor

\* C20: a markAsRead or deleteNotification request changes the notifications
\* table only when its actor owns the notification, and then only that row
\* (read, or removed) with the answer 200; for a notification of another user
\* it is answered 403 and for a missing one 404, and every notification is
\* as it was.
C20_OnlyOwnerMarksOrDeletes ==
  \A r \in Slots :
    req[r].op \in {"mark_read", "delete_notif"} =>
      LET n == req[r].notif IN
        /\ notifs # pre.notifs => OwnsNotif(r, n)
        /\ jobs = pre.jobs /\ apps = pre.apps
        /\ (Done(r) /\ ~NotifExisted(n)) => (req[r].code = 404 /\ notifs = pre.notifs)
        /\ (Done(r) /\ NotifExisted(n) /\ ~OwnsNotif(r, n))
             => (req[r].code = 403 /\ notifs = pre.notifs)
        /\ (Done(r) /\ OwnsNotif(r, n))
             => /\ req[r].code = 200
                /\ notifs = [i \in DOMAIN pre.notifs |->
                               IF i # n THEN pre.notifs[i]
                               ELSE IF req[r].op = "mark_read"
                                 THEN [pre.notifs[i] EXCEPT !.is_read = TRUE]
                               ELSE NoNotification]

\* C20 happens: a user asks to delete an unread notification of another
\* user and is answered 403, and asks for a deleted one and is answered 404
C20_Witness ==
  \E r \in Slots :
    /\ Done(r) /\ req[r].op = "delete_notif"
    /\ NotifExisted(req[r].notif) /\ ~OwnsNotif(r, req[r].notif)
    /\ ~pre.notifs[req[r].notif].is_read
    /\ req[r].code = 403 /\ notifs = pre.notifs
    /\ \E k \in DOMAIN notifs : notifs[k] = NoNotification

\* acceptances through both endpoints over every job status and every
\* application status: the admin sets the statuses of job 1 and of its
\* applications, the owner e1 and the admin accept
NextAccept ==
  \/ \E u \in Seekers : StartApply(1, u, 1)
  \/ \E a \in AppIdInputs : StartUpdate(1, "e1", a, "accepted")
  \/ \E a \in AppIdInputs, s \in validStatusValues : StartAdminUpdate(1, "ad", a, s)
  \/ \E s \in validStatuses : StartAdminJobStatus(1, "ad", 1, s)
  \/ ApplyStep(1) \/ UpdateStep(1) \/ AdminStep(1)
  \/ AdminJobCheck(1) \/ AdminJobUpdate(1) \/ AdminJobRejectPending(1)
  \/ Close(1)

SpecAccept == Init /\ [][NextAccept]_vars

\* the admin endpoints called by every user, over applications of job 1
NextAdmin ==
  \/ \E u \in Seekers : StartApply(1, u, 1)
  \/ \E u \in Users, a \in AppIdInputs, s \in validStatusValues :
       StartAdminUpdate(1, u, a, s)
  \/ \E u \in Users, j \in {1, 2}, s \in validStatuses : StartAdminJobStatus(1, u, j, s)
  \/ \E u \in Users, j \in {1, 2} : StartAdminDeleteJob(1, u, j)
  \/ ApplyStep(1) \/ AdminStep(1)
  \/ AdminJobCheck(1) \/ AdminJobUpdate(1) \/ AdminJobRejectPending(1)
  \/ AdminDeleteCheck(1) \/ AdminDeleteWrite(1)
  \/ Close(1)

SpecAdmin == Init /\ [][NextAdmin]_vars

\* reviews of job 1, two requests at a time: s1 applies, the admin accepts or
\* rejects the application, e1 and s1 review each other or s2
NextReview == \E r \in Slots :
    \/ StartApply(r, "s1", 1)
    \/ \E s \in {"accepted", "rejected"} : StartAdminUpdate(r, "ad", 1, s)
    \/ \E u \in {"e1", "s1"}, v \in {"e1", "s1", "s2"} : StartCreateReview(r, u, v, 1)
    \/ ApplyStep(r) \/ AdminStep(r)
    \/ ReviewExisting(r) \/ ReviewAccepted(r) \/ ReviewCreate(r) \/ ReviewNotify(r)
    \/ Close(r)

SpecReview == Init /\ [][NextReview]_vars

\* registration alone, two requests at a time, any e-mail and any role
NextRegister == \E r \in Slots :
    \/ \E e \in EmailInputs, ro \in RoleInputs : StartRegister(r, e, ro)
    \/ RegisterExists(r) \/ RegisterConnect(r)
    \/ Close(r)

SpecRegister == Init /\ [][NextRegister]_vars

\* ------------------------------------------------------------------- C21
\* C21: a finished markAllAsRead of user U answers 200 with exactly the ids of
\* U's notifications that were unread when it was called, leaves U with an
\* unread count of 0, turns exactly those rows to read and leaves every other
\* row, the read flags of other users' notifications included, as it was
C21_MarkAllAsRead ==
  \A r \in Slots :
    (Done(r) /\ req[r].op = "mark_all") =>
      /\ req[r].code = 200
      /\ req[r].updatedIds =
           { i \in DOMAIN pre.notifs :
               /\ NotifExisted(i)
               /\ pre.notifs[i].user_id = req[r].actor
               /\ ~pre.notifs[i].is_read }
      /\ getUnreadCount(req[r].actor) = 0
      /\ DOMAIN notifs = DOMAIN pre.notifs
      /\ \A i \in DOMAIN notifs :
           IF i \in req[r].updatedIds
           THEN notifs[i] = [pre.notifs[i] EXCEPT !.is_read = TRUE]
           ELSE notifs[i] = pre.notifs[i]
      /\ jobs = pre.jobs /\ apps = pre.apps /\ reviews = pre.reviews

\* a markAllAsRead that marked a row of its caller while another user's unread
\* row and a row the caller had already read were in the table
C21_Witness ==
  \E r \in Slots :
    /\ Done(r) /\ req[r].op = "mark_all"
    /\ req[r].updatedIds # {}
    /\ \E i \in NotifIds : notifs[i].user_id # req[r].actor /\ ~notifs[i].is_read
    /\ \E i \in NotifIds :
         /\ notifs[i].user_id = req[r].actor
         /\ pre.notifs[i].is_read

\* ------------------------------------------------------------------- C23
\* C23: an acceptance of an existing application by the employer who owns the
\* job (PATCH /api/applications/:id/status) or by an admin (either endpoint)
\* always ends answered 200 with the application accepted, whatever the
\* status of the job and of the application were when it arrived; on the
\* admin endpoint the pending siblings are rejected and the job is filled as
\* well, whatever those statuses were; no step of either handler reads them
C23_AcceptanceUnconditional ==
  \A r \in Slots :
    ( /\ req[r].op \in {"update", "admin_update"}
      /\ req[r].status = "accepted" /\ Permitted(r) ) =>
      /\ Done(r) =>
           /\ req[r].code = 200
           /\ apps[req[r].app].status = "accepted"
           /\ req[r].op = "admin_update" => Cascaded(req[r].app)
      /\ ~Done(r) => req[r].code = 0

\* an admin acceptance of an application that was rejected, on a job that had
\* expired, answered 200 with the application accepted and the job filled
C23_Witness ==
  \E r \in Slots :
    /\ Done(r) /\ req[r].op = "admin_update" /\ req[r].status = "accepted"
    /\ Existed(req[r].app) /\ req[r].code = 200
    /\ pre.apps[req[r].app].status = "rejected"
    /\ pre.jobs[pre.apps[req[r].app].job_id].status = "expired"
    /\ Cascaded(req[r].app)

\* the same through the owner's endpoint: the application had been withdrawn
\* by an admin and the job was a draft
C23_WitnessOwner ==
  \E r \in Slots :
    /\ Done(r) /\ req[r].op = "update" /\ req[r].actor = "e1"
    /\ req[r].status = "accepted" /\ req[r].code = 200
    /\ pre.apps[req[r].app].status = "withdrawn"
    /\ pre.jobs[pre.apps[req[r].app].job_id].status = "draft"
    /\ apps[req[r].app].status = "accepted"

\* ------------------------------------------------------------------- C24
\* C24: an employer's updateJob or deleteJob changes the tables only when the
\* caller posted the job; for a job of another employer and for a job that
\* does not exist it is answered 404 with jobs, applications and every other
\* table as they were; for the caller's own job it is answered 200 with the
\* job in the requested status, or gone
C24_OwnerOnlyJobWrites ==
  \A r \in Slots :
    ( /\ req[r].op \in {"update_job", "delete_job"}
      /\ Role(req[r].actor) = "employer" ) =>
      /\ db # pre => Owns(req[r].actor, req[r].job)
      /\ (Done(r) /\ ~Owns(req[r].actor, req[r].job)) =>
           (req[r].code = 404 /\ db = pre)
      /\ (Done(r) /\ Owns(req[r].actor, req[r].job)) =>
           /\ req[r].code = 200
           /\ req[r].op = "update_job" =>
                (req[r].job \in DOMAIN jobs /\ jobs[req[r].job].status = req[r].status)
           /\ req[r].op = "delete_job" => req[r].job \notin DOMAIN jobs

\* employer e2 asked to delete job 1 of e1, which had an application, and was
\* answered 404 with the job and the application still there
C24_Witness ==
  \E r \in Slots :
    /\ Done(r) /\ req[r].op = "delete_job" /\ req[r].actor = "e2"
    /\ req[r].job = 1 /\ 1 \in DOMAIN pre.jobs
    /\ \E a \in AppIds : apps[a].job_id = 1
    /\ req[r].code = 404 /\ db = pre

\* ------------------------------------------------------------------- C25
\* C25: in every reachable state, a job whose status is filled has no
\* application whose status is pending
C25_FilledJobHasNoPending ==
  \A a \in AppIds :
    (apps[a].job_id \in DOMAIN jobs /\ jobs[apps[a].job_id].status = "filled")
      => apps[a].status # "pending"

\* ------------------------------------------------------------------- C26
\* the user id of the applicant of application a, as the request found it
ApplicantUser(a) ==
  CHOOSE u \in Users : \E p \in job_seeker_profiles :
    p.user_id = u /\ p.id = pre.apps[a].job_seeker_id

\* the user id of the employer who posted the job of application a
OwnerUser(a) ==
  CHOOSE u \in Users : \E ep \in employer_profiles :
    ep.user_id = u /\ ep.id = pre.jobs[pre.apps[a].job_id].employer_id

\* C26: when an employer's acceptance or rejection is answered 200, the
\* notifications table holds exactly one row more than before, addressed to
\* the applicant's user id; when a job seeker's withdrawal is answered 200,
\* exactly one row more, addressed to the user id of the employer who posted
\* the job; the row has type application_status, the application's id as
\* related id and is unread, and the earlier rows are as they were
C26_NotifiesOtherParty ==
  \A r \in Slots :
    ( /\ Done(r) /\ req[r].op = "update" /\ req[r].code = 200
      /\ Role(req[r].actor) \in {"employer", "job_seeker"} ) =>
      notifs = Append(pre.notifs,
                 [user_id |-> IF Role(req[r].actor) = "employer"
                              THEN ApplicantUser(req[r].app)
                              ELSE OwnerUser(req[r].app),
                  type |-> "application_status",
                  related_id |-> req[r].app,
                  is_read |-> FALSE])

\* s2 withdrew their application to job 1 and the one new notification is
\* addressed to e1, who posted the job, not to s2
C26_Witness ==
  \E r \in Slots :
    /\ Done(r) /\ req[r].op = "update" /\ req[r].actor = "s2"
    /\ req[r].status = "withdrawn" /\ req[r].code = 200
    /\ Len(notifs) = Len(pre.notifs) + 1
    /\ notifs[Len(notifs)].user_id = "e1"
    /\ notifs[Len(notifs)].related_id = req[r].app

\* ------------------------------------------------------------------- C27
\* C27: a register request that did not commit (was not answered 201) was
\* answered 400, and left the tables as it found them; this is what the claim
\* says of each request losing a race for an e-mail
C27_LosingRegisterIs400 ==
  \A r \in Slots :
    (Done(r) /\ req[r].op = "register" /\ req[r].code # 201) =>
      /\ req[r].code = 400
      /\ db = pre

\* ------------------------------------------------------------------- C28
\* the request in slot r is one to an /api/admin endpoint
AdminOp(r) == req[r].op \in {"admin_update", "admin_job_status", "admin_delete_job"}

\* C28: a request to an /api/admin endpoint (application status, job status,
\* job deletion) changes a table only when its caller's role is admin; from
\* any other authenticated user it is answered 403, at once, and jobs,
\* applications, notifications and reviews stay as they were
C28_AdminOnly ==
  \A r \in Slots :
    AdminOp(r) =>
      /\ db # pre => Role(req[r].actor) = "admin"
      /\ Role(req[r].actor) # "admin" =>
           (Done(r) /\ req[r].code = 403 /\ db = pre)

\* employer e1, who posted job 1, asked the admin endpoint to delete job 1
\* while it had an application, and was answered 403 with nothing changed
C28_Witness ==
  \E r \in Slots :
    /\ Done(r) /\ req[r].op = "admin_delete_job" /\ req[r].actor = "e1"
    /\ req[r].job = 1 /\ 1 \in DOMAIN jobs
    /\ \E a \in AppIds : apps[a].job_id = 1
    /\ req[r].code = 403 /\ db = pre

\* ------------------------------------------------------------------- C29
\* C29: a finished register request whose role is neither job_seeker nor
\* employer was answered 400, never reached the e-mail lookup or the pool, and
\* left every table as it found it; no register request is answered 201 for
\* the role admin
C29_NoAdminByRegistration ==
  \A r \in Slots :
    /\ (Done(r) /\ req[r].op = "register"
          /\ req[r].role \notin {"job_seeker", "employer"}) =>
         /\ req[r].code = 400
         /\ req[r].failed = "-"
         /\ db = pre
    /\ (req[r].op = "register" /\ req[r].role \notin {"job_seeker", "employer"}) =>
         req[r].pc = "done"

\* a register request for the role admin with an unused e-mail was refused
\* while another register request was under way
C29_Witness ==
  \E r \in Slots, o \in Slots :
    /\ r # o
    /\ Done(r) /\ req[r].op = "register"
    /\ req[r].role = "admin" /\ req[r].email = "new@" /\ req[r].code = 400
    /\ req[o].op = "register" /\ req[o].pc = "reg_connect"

\* ------------------------------------------------------------------- C30
\* C30: in every reachable state the reviews table holds at most one review
\* per reviewer, reviewee and job
C30_OneReviewPerTriple ==
  \A i \in DOMAIN reviews, k \in DOMAIN reviews :
    ( /\ reviews[i].reviewer_id = reviews[k].reviewer_id
      /\ reviews[i].reviewee_id = reviews[k].reviewee_id
      /\ reviews[i].job_id = reviews[k].job_id ) => i = k

====
